---------------------------- MODULE Spec2Model ----------------------------
(***************************************************************************)
(* A model of src/app.py: the chat client of the Hugging Face inference    *)
(* endpoint.  TokenManager (history and text truncation), APICache (the    *)
(* sqlite table with read-time expiry), HuggingFaceClient (query with its  *)
(* retry loop, _extract_response) and ChatSession (add_message, the clear  *)
(* button of the sidebar).                                                  *)
(*                                                                         *)
(* Python str values are TLA+ strings (Len, \o, SubSeq, Head, Tail work on *)
(* them), Python lists are sequences, None is <<>> and a present value s   *)
(* is <<s>>.  The warning sign that opens the user-facing messages of the  *)
(* source is written "(!)" and accents are dropped.                        *)
(***************************************************************************)
EXTENDS Integers, Sequences, FiniteSets, TLC

(***************************************************************************)
(* Configuration, src/app.py lines 24-29.                                  *)
(***************************************************************************)
MAX_HISTORY_TOKENS == 800
MAX_INPUT_LENGTH == 512
CACHE_EXPIRY == 3600
MAX_RETRIES == 3
MAX_CONVERSATION_TURNS == 10

\* The literals of add_message and query: the context window of 3 pairs, the
\* context cap of 200 characters, the salvage threshold of 100 words, the
\* minimum length of an adequate reply, the length above which the fallback
\* scan of _extract_response accepts a text field, the divisor of
\* estimate_tokens.
CONTEXT_PAIRS == 3
CONTEXT_CHARS == 200
SALVAGE_WORDS == 100
MIN_REPLY_LENGTH == 2
SCAN_MIN_LENGTH == 5
CHARS_PER_TOKEN == 4

(***************************************************************************)
(* Python values.                                                          *)
(***************************************************************************)
None == <<>>
Some(v) == <<v>>

\* seq[n:] and seq[-n:] of Python, on sequences and on strings.
DropFirst(s, n) == SubSeq(s, n + 1, Len(s))
KeepLast(s, n) == IF Len(s) <= n THEN s ELSE SubSeq(s, Len(s) - n + 1, Len(s))
KeepFirst(s, n) == IF Len(s) <= n THEN s ELSE SubSeq(s, 1, n)

\* str.isspace on one character.
IsSpace(c) == c \in {" ", "\t", "\n", "\r"}

RECURSIVE lstrip(_)
lstrip(s) ==
    IF s = "" THEN ""
    ELSE IF IsSpace(Head(s)) THEN lstrip(Tail(s)) ELSE s

RECURSIVE rstrip(_)
rstrip(s) ==
    IF s = "" THEN ""
    ELSE IF IsSpace(SubSeq(s, Len(s), Len(s)))
         THEN rstrip(SubSeq(s, 1, Len(s) - 1)) ELSE s

\* str.strip()
strip(s) == rstrip(lstrip(s))

\* str.split(): the maximal runs of non-whitespace characters, in order.
\* SplitPart splits a non-empty text by halves: w are the words, l and r tell
\* whether its first and last characters are whitespace; a word that spans
\* the cut is glued together again.
Glue(A, B) ==
    IF ~A.r /\ ~B.l
    THEN SubSeq(A.w, 1, Len(A.w) - 1)
             \o <<A.w[Len(A.w)] \o B.w[1]>> \o Tail(B.w)
    ELSE A.w \o B.w

Merge(A, B) == [w |-> Glue(A, B), l |-> A.l, r |-> B.r]

RECURSIVE SplitPart(_)
SplitPart(s) ==
    IF Len(s) = 1
    THEN (IF IsSpace(s) THEN [w |-> <<>>, l |-> TRUE, r |-> TRUE]
          ELSE [w |-> <<s>>, l |-> FALSE, r |-> FALSE])
    ELSE Merge(SplitPart(SubSeq(s, 1, Len(s) \div 2)),
               SplitPart(SubSeq(s, Len(s) \div 2 + 1, Len(s))))

split(s) == IF s = "" THEN <<>> ELSE SplitPart(s).w

\* " ".join(words), by halves.
RECURSIVE join(_)
join(words) ==
    IF words = <<>> THEN ""
    ELSE IF Len(words) = 1 THEN words[1]
    ELSE join(SubSeq(words, 1, Len(words) \div 2)) \o " "
             \o join(SubSeq(words, Len(words) \div 2 + 1, Len(words)))

(***************************************************************************)
(* TokenManager, src/app.py lines 83-134.                                  *)
(***************************************************************************)
estimate_tokens(text) == Len(text) \div CHARS_PER_TOKEN

RECURSIVE SumTokens(_)
SumTokens(msgs) ==
    IF msgs = <<>> THEN 0
    ELSE estimate_tokens(Head(msgs)) + SumTokens(Tail(msgs))

\* The while loop of truncate_history (lines 120-124).
RECURSIVE PopOldest(_, _, _, _)
PopOldest(inputs_copy, responses_copy, total_tokens, max_tokens) ==
    IF total_tokens > max_tokens /\ inputs_copy # <<>> /\ responses_copy # <<>>
    THEN PopOldest(Tail(inputs_copy), Tail(responses_copy),
                   total_tokens - (estimate_tokens(Head(inputs_copy))
                                   + estimate_tokens(Head(responses_copy))),
                   max_tokens)
    ELSE <<inputs_copy, responses_copy>>

\* A truncate_history whose slice of the responses is taken from the front.
truncate_history_FrontSlice(past_inputs, past_responses, max_tokens) ==
    IF Len(past_inputs) > MAX_CONVERSATION_TURNS
    THEN <<DropFirst(past_inputs, Len(past_inputs) - MAX_CONVERSATION_TURNS),
           KeepFirst(past_responses, MAX_CONVERSATION_TURNS)>>
    ELSE PopOldest(past_inputs, past_responses,
                   SumTokens(past_inputs \o past_responses), max_tokens)

truncate_history(past_inputs, past_responses, max_tokens) ==
    IF Len(past_inputs) > MAX_CONVERSATION_TURNS
    THEN LET start_idx == Len(past_inputs) - MAX_CONVERSATION_TURNS IN
         <<DropFirst(past_inputs, start_idx), DropFirst(past_responses, start_idx)>>
    ELSE LET total_tokens == SumTokens(past_inputs \o past_responses) IN
         IF total_tokens <= max_tokens
         THEN <<past_inputs, past_responses>>
         ELSE PopOldest(past_inputs, past_responses, total_tokens, max_tokens)

truncate_text(text, max_length) ==
    IF Len(text) <= max_length THEN text ELSE SubSeq(text, 1, max_length)


(***************************************************************************)
(* APICache, src/app.py lines 136-182.  The table of init_db is a set of   *)
(* rows [query_hash, response, timestamp]; query_hash is its primary key.  *)
(***************************************************************************)
\* hashlib.md5 is taken to be collision free: the digest stands for its input.
compute_hash(data) == <<"md5", data>>

\* SELECT response, timestamp FROM cache WHERE query_hash = ?  (fetchone)
SelectRows(table, query_hash) == {r \in table : r.query_hash = query_hash}

\* A lookup that trusts a row whatever its age.
get_cached_response_NoExpiry(table, query, current_time) ==
    LET rows == SelectRows(table, compute_hash(query)) IN
    IF rows # {} THEN Some((CHOOSE r \in rows : TRUE).response) ELSE None

\* A lookup that never finds a row.
get_cached_response_AlwaysMiss(table, query, current_time) == None

get_cached_response(table, query, current_time) ==
    LET rows == SelectRows(table, compute_hash(query)) IN
    IF rows # {}
       /\ (current_time - (CHOOSE r \in rows : TRUE).timestamp) < CACHE_EXPIRY
    THEN Some((CHOOSE r \in rows : TRUE).response)
    ELSE None

\* INSERT OR IGNORE in place of INSERT OR REPLACE: the first row is kept.
cache_response_KeepOld(table, query, response, current_time) ==
    IF SelectRows(table, compute_hash(query)) # {} THEN table
    ELSE table \cup {[query_hash |-> compute_hash(query),
                      response |-> response, timestamp |-> current_time]}

\* INSERT OR REPLACE INTO cache (query_hash, response, timestamp)
cache_response(table, query, response, current_time) ==
    {r \in table : r.query_hash # compute_hash(query)}
        \cup {[query_hash |-> compute_hash(query),
               response |-> response, timestamp |-> current_time]}

(***************************************************************************)
(* The strings query and add_message return, src/app.py lines 250-403.     *)
(***************************************************************************)
MSG_INVALID_INPUT == "(!) Por favor, digite uma mensagem valida."
MSG_BAD_REQUEST ==
    "(!) Erro na requisicao: formato invalido. Tente uma mensagem mais curta."
MSG_FALLBACK ==
    "Desculpe, nao consegui gerar uma resposta adequada. Poderia reformular?"
MSG_SERVER_ERROR == "(!) Erro no servidor da API. Tente novamente mais tarde."
MSG_HTTP_ERROR(status_code) == "(!) Erro na requisicao: " \o ToString(status_code)
MSG_TIMEOUT == "(!) Tempo esgotado ao aguardar resposta da API."
MSG_CONNECTION == "(!) Erro de conexao com a API."
MSG_INVALID_RESPONSE == "(!) Resposta invalida da API."
MSG_UNKNOWN_ERROR(e) == "(!) Ocorreu um erro: " \o e
MSG_RETRIES_EXHAUSTED ==
    "(!) Nao foi possivel obter uma resposta apos varias tentativas."
MSG_API_ERROR(err) == "(!) Erro da API: " \o err
MSG_UNEXPECTED_FORMAT == "(!) Formato de resposta inesperado da API."
MSG_ADD_MESSAGE_ERROR ==
    "(!) Ocorreu um erro ao processar sua mensagem. Tente novamente ou reformule."

(***************************************************************************)
(* APICache when the backing store may fail.                               *)
(***************************************************************************)
\* A table with one more row per store: no primary key.
cache_write_NoKey(table, query, response, current_time, db_fails) ==
    IF db_fails THEN table
    ELSE table \cup {[query_hash |-> compute_hash(query),
                      response |-> response, timestamp |-> current_time]}

\* A lookup whose storage failure is not swallowed: it reaches the except of
\* add_message (line 401), and the call ends with that message.
cache_read_FailureIsFatal(table, query, current_time, db_fails) ==
    IF db_fails THEN Some(MSG_ADD_MESSAGE_ERROR)
    ELSE get_cached_response(table, query, current_time)

\* get_cached_response and cache_response with their try/except (lines
\* 146-164 and 169-182): when the backing store fails (sqlite3.connect or
\* execute raises), the except logs, the lookup goes on to return None and
\* the store returns without a row written.
cache_read(table, query, current_time, db_fails) ==
    IF db_fails THEN None ELSE get_cached_response(table, query, current_time)

cache_write(table, query, response, current_time, db_fails) ==
    IF db_fails THEN table ELSE cache_response(table, query, response, current_time)

(***************************************************************************)
(* Decoded JSON.  A value is a record with a kind: a text [kind, s], a     *)
(* number [kind, n], a dict [kind, items] whose items are <<key, value>>   *)
(* in iteration order, a list [kind, elems].                               *)
(***************************************************************************)
JStr(s) == [kind |-> "str", s |-> s]
JNum(n) == [kind |-> "num", n |-> n]
JDict(items) == [kind |-> "dict", items |-> items]
JList(elems) == [kind |-> "list", elems |-> elems]

IsDict(data) == data.kind = "dict"
IsList(data) == data.kind = "list"
IsStr(data) == data.kind = "str"

\* key in d, d[key]
HasKey(d, key) == \E i \in 1..Len(d.items) : d.items[i][1] = key
GetKey(d, key) ==
    d.items[CHOOSE i \in 1..Len(d.items) : d.items[i][1] = key][2]

\* sub occurs in s.
Contains(s, sub) ==
    \E k \in 0..(Len(s) - Len(sub)) : SubSeq(s, k + 1, k + Len(sub)) = sub

\* The text an f-string puts in for a decoded value.
Format(v) ==
    IF IsStr(v) THEN v.s
    ELSE IF v.kind = "num" THEN ToString(v.n)
    ELSE IF IsDict(v) THEN "{...}" ELSE "[...]"

\* The loops of lines 333-335 and 338-340: the first text value longer than
\* 5 characters, stripped; None when there is none.
RECURSIVE ScanItems(_)
ScanItems(items) ==
    IF items = <<>> THEN None
    ELSE LET value == Head(items)[2] IN
         IF IsStr(value) /\ Len(value.s) > SCAN_MIN_LENGTH
         THEN Some(strip(value.s))
         ELSE ScanItems(Tail(items))

\* data["generated_text"].strip(): an AttributeError when the value is not
\* text, which the except of line 341 turns into the marker.
GeneratedText(d) ==
    IF IsStr(GetKey(d, "generated_text"))
    THEN strip(GetKey(d, "generated_text").s)
    ELSE MSG_UNEXPECTED_FORMAT

\* An _extract_response that looks for the "error" field first.
extract_response_ErrorFirst(data) ==
    IF IsDict(data) /\ HasKey(data, "error")
    THEN MSG_API_ERROR(Format(GetKey(data, "error")))
    ELSE IF IsDict(data) /\ HasKey(data, "generated_text") THEN GeneratedText(data)
    ELSE IF IsList(data) /\ data.elems # <<>> /\ IsDict(data.elems[1])
            /\ HasKey(data.elems[1], "generated_text")
         THEN GeneratedText(data.elems[1])
    ELSE IF IsDict(data) /\ ScanItems(data.items) # None
         THEN ScanItems(data.items)[1]
    ELSE IF IsList(data) /\ data.elems # <<>> /\ IsDict(data.elems[1])
            /\ ScanItems(data.elems[1].items) # None
         THEN ScanItems(data.elems[1].items)[1]
    ELSE MSG_UNEXPECTED_FORMAT

\* HuggingFaceClient._extract_response, src/app.py lines 315-344.
extract_response(data) ==
    IF IsDict(data) /\ HasKey(data, "generated_text") THEN GeneratedText(data)
    ELSE IF IsDict(data) /\ HasKey(data, "error")
         THEN MSG_API_ERROR(Format(GetKey(data, "error")))
    ELSE IF IsList(data) /\ data.elems # <<>> /\ IsDict(data.elems[1])
            /\ HasKey(data.elems[1], "generated_text")
         THEN GeneratedText(data.elems[1])
    ELSE IF IsDict(data) /\ ScanItems(data.items) # None
         THEN ScanItems(data.items)[1]
    ELSE IF IsList(data) /\ data.elems # <<>> /\ IsDict(data.elems[1])
            /\ ScanItems(data.elems[1].items) # None
         THEN ScanItems(data.elems[1].items)[1]
    ELSE MSG_UNEXPECTED_FORMAT

(***************************************************************************)
(* What requests.post and response.json() can give one attempt.  An HTTP   *)
(* answer has a status code and a body: decoded JSON, or a body that is    *)
(* not JSON.  response.json() then raises the decode error of the          *)
(* installed requests: requests.exceptions.JSONDecodeError, which is both  *)
(* a RequestException and a json.JSONDecodeError (requests 2.27 and        *)
(* later), or the plain json.JSONDecodeError (earlier releases).  The      *)
(* source pins no release, so both are outcomes of the attempt.            *)
(***************************************************************************)
NoData == JStr("")
Http(status_code) ==
    [kind |-> "http", status_code |-> status_code, decode_error |-> "",
     data |-> NoData, text |-> ""]
HttpJson(data) ==
    [kind |-> "http", status_code |-> 200, decode_error |-> "",
     data |-> data, text |-> ""]
HttpNotJson(decode_error) ==
    [kind |-> "http", status_code |-> 200, decode_error |-> decode_error,
     data |-> NoData, text |-> ""]
Raises(kind, text) ==
    [kind |-> kind, status_code |-> 0, decode_error |-> "",
     data |-> NoData, text |-> text]

DecodeErrors == {"requests.exceptions.JSONDecodeError", "json.JSONDecodeError"}

\* except requests.exceptions.RequestException (line 297) stands before
\* except json.JSONDecodeError (line 301): the first clause that matches the
\* raised class handles it.
IsRequestException(decode_error) ==
    decode_error = "requests.exceptions.JSONDecodeError"

VALID_DATA == JList(<<JDict(<<<<"generated_text", JStr(" Hello there ")>>>>)>>)
SHORT_DATA == JList(<<JDict(<<<<"generated_text", JStr("k")>>>>)>>)
EMPTY_DATA == JList(<<JDict(<<<<"generated_text", JStr("  ")>>>>)>>)
ERROR_DATA == JDict(<<<<"error", JStr("model loading")>>>>)

Answers ==
    {Http(400), Http(429), Http(503), Http(404),
     Raises("timeout", ""), Raises("connection", ""), Raises("exception", "boom"),
     HttpJson(VALID_DATA), HttpJson(SHORT_DATA), HttpJson(EMPTY_DATA),
     HttpJson(ERROR_DATA)}
        \cup {HttpNotJson(e) : e \in DecodeErrors}

\* An answer other than a 200 with an adequate text.
IsFault(resp) == resp # HttpJson(VALID_DATA)

(***************************************************************************)
(* The inputs of the model.                                                *)
(***************************************************************************)
RECURSIVE Rep(_, _)
Rep(s, n) ==
    IF n = 0 THEN ""
    ELSE IF n % 2 = 0 THEN LET h == Rep(s, n \div 2) IN h \o h
    ELSE s \o Rep(s, n - 1)

\* 112 words in 340 characters: within MAX_INPUT_LENGTH, above SALVAGE_WORDS.
LONG_MESSAGE == "inicio " \o Rep("ab ", 110) \o "fim"

UserMessages == {"", "  ", "oi", LONG_MESSAGE}

\* The bound of the session: the events of its environment in one run.  A
\* valid message sent, an answer of the endpoint other than an adequate text
\* and a step of the clock are one event each.
MaxEvents == 4

\* The clock steps between two calls: the expiry, and one second less.
TickSteps == {CACHE_EXPIRY - 1, CACHE_EXPIRY}

(***************************************************************************)
(* State.                                                                  *)
(*   user_inputs, bot_responses   st.session_state of the session          *)
(*   cache                        the rows of the cache table              *)
(*   now                          int(time.time())                         *)
(*   pc                           where the session is: "idle", in query   *)
(*                                before an attempt ("attempt"), in        *)
(*                                time.sleep ("sleep"), or returned        *)
(*                                ("done")                                 *)
(*   attempt, prompt, payload     the locals of query                      *)
(*   wait                         the delay of the pending time.sleep      *)
(*   result                       what add_message returned, or None       *)
(* History of the current call, kept for the properties:                   *)
(*   received   the answers of its attempts, in order                      *)
(*   sent       payload["inputs"] of each request, in order               *)
(*   sleeps     the delays slept, in order                                 *)
(*   lookups    the cache lookups, as <<query, returned>>                  *)
(*   writes     the cache writes, as <<query, response>>                   *)
(*   given      the message add_message was called with                    *)
(*   before     user_inputs, bot_responses, cache and now at its start     *)
(*   events     the events counted against the bound                       *)
(* For the specifications of the pure parts:                               *)
(*   th_args, th_max              the arguments of truncate_history        *)
(*   th_once, th_twice, th_step   its first and second application         *)
(*   stored     per query, the response and time of the latest             *)
(*              cache_response call, whether a lookup has returned it and  *)
(*              whether it replaced another response                       *)
(*   looked     the latest get_cached_response call: query, time, returned *)
(* For the calls that run side by side on one table:                       *)
(*   calls      per call, the locals of its query and what it sent, slept  *)
(*              and returned                                               *)
(*   written    per query, the response of the latest cache_response call  *)
(* For _extract_response on its own:                                       *)
(*   ex_data, ex_text             its argument and its result              *)
(* The setting of the sidebar:                                             *)
(*   max_tokens           st.session_state["max_tokens"], the slider       *)
(*   max_history_tokens   the module global MAX_HISTORY_TOKENS as main     *)
(*                        rebinds it; the constant MAX_HISTORY_TOKENS is   *)
(*                        its value when the module was loaded             *)
(***************************************************************************)
VARIABLES user_inputs, bot_responses, cache, now, pc, attempt, prompt,
          payload, wait, result, received, sent, sleeps, lookups, writes,
          given, before, events,
          th_args, th_max, th_once, th_twice, th_step, stored, looked,
          calls, written, ex_data, ex_text,
          max_tokens, max_history_tokens

session == <<user_inputs, bot_responses>>
locals == <<attempt, prompt, payload, wait>>
history == <<received, sent, sleeps, lookups, writes, given, before>>
trunc == <<th_args, th_max, th_once, th_twice, th_step>>
cachelog == <<stored, looked>>
extra == <<calls, written, ex_data, ex_text>>
settings == <<max_tokens, max_history_tokens>>
vars == <<session, cache, now, pc, locals, result, history, events,
          trunc, cachelog, extra, settings>>

Pow2(n) == 2 ^ n

\* for attempt in range(1, MAX_RETRIES + 1), line 218, with one attempt too many.
InRange_OneMore(a) == a <= MAX_RETRIES + 1

\* for attempt in range(1, MAX_RETRIES + 1), line 218.
InRange(a) == a <= MAX_RETRIES

\* An input check without the strip().
IsInvalidInput_NoStrip(user_input) == user_input = ""

\* not user_input or len(user_input.strip()) == 0, line 362.
IsInvalidInput(user_input) == user_input = "" \/ Len(strip(user_input)) = 0

\* Lines 246-248: the trailing 100 words of a prompt of more than 100 words.
Salvage(p) ==
    LET words == split(p) IN
    IF Len(words) > SALVAGE_WORDS THEN join(KeepLast(words, SALVAGE_WORDS)) ELSE p

\* A prompt whose context is the oldest pair of the window, not the latest.
AssemblePrompt_OldestPair(truncated_inputs, truncated_responses, user_input) ==
    LET ins == IF Len(truncated_inputs) >= CONTEXT_PAIRS
               THEN KeepLast(truncated_inputs, CONTEXT_PAIRS) ELSE truncated_inputs
        outs == IF Len(truncated_inputs) >= CONTEXT_PAIRS
                THEN KeepLast(truncated_responses, CONTEXT_PAIRS)
                ELSE truncated_responses
    IN  IF ins # <<>> /\ outs # <<>>
        THEN LET context == ins[1] \o " " \o outs[1] IN
             KeepLast(context, CONTEXT_CHARS) \o " " \o user_input
        ELSE user_input

\* Lines 382-396 of add_message: the text handed to query.
AssemblePrompt(truncated_inputs, truncated_responses, user_input) ==
    LET ins == IF Len(truncated_inputs) >= CONTEXT_PAIRS
               THEN KeepLast(truncated_inputs, CONTEXT_PAIRS) ELSE truncated_inputs
        outs == IF Len(truncated_inputs) >= CONTEXT_PAIRS
                THEN KeepLast(truncated_responses, CONTEXT_PAIRS)
                ELSE truncated_responses
    IN  IF ins # <<>> /\ outs # <<>>
        THEN LET context == ins[Len(ins)] \o " " \o outs[Len(outs)] IN
             KeepLast(context, CONTEXT_CHARS) \o " " \o user_input
        ELSE user_input

\* The prompt add_message gives query for user_input, in the current session.
\* add_message passes truncate_history no max_tokens (lines 374-377), so the
\* budget is the parameter's default: the value MAX_HISTORY_TOKENS had when
\* the def statement of line 92 was executed.
UserQuery(user_input) ==
    LET clamped == KeepFirst(user_input, MAX_INPUT_LENGTH)
        truncated == truncate_history(user_inputs, bot_responses, MAX_HISTORY_TOKENS)
    IN  AssemblePrompt(truncated[1], truncated[2], clamped)

\* if cached_response:  (line 204) -- None and "" are both false.
Truthy(opt) == opt # None /\ opt[1] # ""


(***************************************************************************)
(* HuggingFaceClient.query, src/app.py lines 195-313: one pass of the loop *)
(* body for the answer resp of attempt a with the local prompt p.  The     *)
(* pass returns reply (storing it in the cache first when store), goes on  *)
(* to the next attempt at once with a new prompt ("continue"), or sleeps   *)
(* 2 ** a seconds and then leaves the loop body ("sleep").                 *)
(***************************************************************************)
\* A test that also lets the last attempt try again.
AttemptsRemain_Always(a) == a <= MAX_RETRIES

\* if attempt < MAX_RETRIES, lines 244, 262, 280, 291, 303.
AttemptsRemain(a) == a < MAX_RETRIES

ReturnNow(reply, store) ==
    [then |-> "return", reply |-> reply, store |-> store, prompt |-> ""]
ContinueWith(p) ==
    [then |-> "continue", reply |-> "", store |-> FALSE, prompt |-> p]
SleepFirst(p) ==
    [then |-> "sleep", reply |-> "", store |-> FALSE, prompt |-> p]

\* A HandleData that gives up on the first inadequate text.
HandleData_NoRetry(data, a, p) ==
    LET text == extract_response(data) IN
    IF text = "" \/ Len(text) < MIN_REPLY_LENGTH
    THEN ReturnNow(MSG_FALLBACK, TRUE)
    ELSE ReturnNow(text, TRUE)

\* A HandleData that takes an error payload for a reason to try again.
HandleData_RetryOnError(data, a, p) ==
    LET text == extract_response(data) IN
    IF text = "" \/ Len(text) < MIN_REPLY_LENGTH
       \/ (IsDict(data) /\ HasKey(data, "error"))
    THEN (IF AttemptsRemain(a) THEN SleepFirst(p) ELSE ReturnNow(MSG_FALLBACK, TRUE))
    ELSE ReturnNow(text, TRUE)

\* A HandleData that returns and stores an inadequate text of the last
\* attempt as it is.
HandleData_KeepsShort(data, a, p) ==
    LET text == extract_response(data) IN
    IF (text = "" \/ Len(text) < MIN_REPLY_LENGTH) /\ AttemptsRemain(a)
    THEN SleepFirst(p)
    ELSE ReturnNow(text, TRUE)

\* Lines 255-270: a decoded body.
HandleData(data, a, p) ==
    LET text == extract_response(data) IN
    IF text = "" \/ Len(text) < MIN_REPLY_LENGTH
    THEN (IF AttemptsRemain(a) THEN SleepFirst(p) ELSE ReturnNow(MSG_FALLBACK, TRUE))
    ELSE ReturnNow(text, TRUE)

\* An except clause that tries again after every status but 429, as after a 5xx.
HandleHTTPError_RetryClientErrors(status_code, a, p) ==
    IF status_code = 429 THEN SleepFirst(p)
    ELSE IF AttemptsRemain(a) THEN SleepFirst(p)
    ELSE ReturnNow(MSG_SERVER_ERROR, FALSE)

\* Lines 272-287: except requests.exceptions.HTTPError.
HandleHTTPError(status_code, a, p) ==
    IF status_code = 429 THEN SleepFirst(p)
    ELSE IF status_code >= 500
         THEN (IF AttemptsRemain(a) THEN SleepFirst(p)
               ELSE ReturnNow(MSG_SERVER_ERROR, FALSE))
    ELSE ReturnNow(MSG_HTTP_ERROR(status_code), FALSE)

\* Lines 297-307: response.json() raised decode_error.
HandleDecodeError(decode_error, a, p) ==
    IF IsRequestException(decode_error) THEN ReturnNow(MSG_CONNECTION, FALSE)
    ELSE IF AttemptsRemain(a) THEN SleepFirst(p)
    ELSE ReturnNow(MSG_INVALID_RESPONSE, FALSE)

Handle(resp, a, p) ==
    IF resp.kind = "http"
    THEN IF resp.status_code = 400
         THEN (IF AttemptsRemain(a) THEN ContinueWith(Salvage(p))
               ELSE ReturnNow(MSG_BAD_REQUEST, FALSE))
         ELSE IF resp.status_code >= 400 /\ resp.status_code < 600
         THEN HandleHTTPError(resp.status_code, a, p)
         ELSE IF resp.decode_error # ""
         THEN HandleDecodeError(resp.decode_error, a, p)
         ELSE HandleData(resp.data, a, p)
    ELSE IF resp.kind = "timeout"
         THEN (IF AttemptsRemain(a) THEN SleepFirst(p)
               ELSE ReturnNow(MSG_TIMEOUT, FALSE))
    ELSE IF resp.kind = "connection" THEN ReturnNow(MSG_CONNECTION, FALSE)
    ELSE ReturnNow(MSG_UNKNOWN_ERROR(resp.text), FALSE)

(***************************************************************************)
(* The session.                                                            *)
(***************************************************************************)
NoPayload == [inputs |-> ""]
NoBefore == <<<<>>, <<>>, {}, 0>>

\* The session after ChatSession.__init__ (lines 352-354), the table after
\* init_db (lines 50-56).
InitSession ==
    /\ user_inputs = <<>> /\ bot_responses = <<>>
    /\ cache = {} /\ now = 0
    /\ pc = "idle"
    /\ attempt = 0 /\ prompt = "" /\ payload = NoPayload /\ wait = 0
    /\ result = None
    /\ received = <<>> /\ sent = <<>> /\ sleeps = <<>>
    /\ lookups = <<>> /\ writes = <<>> /\ given = "" /\ before = NoBefore
    /\ events = 0

NoHistory == <<<<>>, <<>>>>
InitTruncIdle ==
    /\ th_args = NoHistory /\ th_once = NoHistory /\ th_twice = NoHistory
    /\ th_max = MAX_HISTORY_TOKENS /\ th_step = 0

InitCacheIdle == stored = <<>> /\ looked = <<>>

InitCallsIdle == calls = <<>> /\ written = <<>>
InitExtractIdle == ex_data = <<>> /\ ex_text = <<>>
InitExtraIdle == InitCallsIdle /\ InitExtractIdle

\* The slider before it is moved (value=MAX_HISTORY_TOKENS, line 540) and
\* the global as line 24 binds it.
InitSettings ==
    max_tokens = MAX_HISTORY_TOKENS /\ max_history_tokens = MAX_HISTORY_TOKENS

Init ==
    InitSession /\ InitTruncIdle /\ InitCacheIdle /\ InitExtraIdle /\ InitSettings

Between == pc \in {"idle", "done"}

\* A return that leaves the reply out of the history.
Return_DropsReply(reply) ==
    /\ result' = Some(reply)
    /\ bot_responses' = bot_responses
    /\ pc' = "done"
    /\ attempt' = 0 /\ prompt' = "" /\ payload' = NoPayload /\ wait' = 0

\* query and add_message return reply: lines 406-408.
Return(reply) ==
    /\ result' = Some(reply)
    /\ bot_responses' = Append(bot_responses, reply)
    /\ pc' = "done"
    /\ attempt' = 0 /\ prompt' = "" /\ payload' = NoPayload /\ wait' = 0

\* The loop goes to its next attempt, or ends and line 313 returns.
NextIteration(p) ==
    IF InRange(attempt + 1)
    THEN /\ attempt' = attempt + 1
         /\ prompt' = p
         /\ pc' = "attempt"
         /\ UNCHANGED <<payload, wait, result, bot_responses>>
    ELSE Return(MSG_RETRIES_EXHAUSTED)

\* add_message with an empty or blank message: lines 362-363.  main calls
\* add_message for a submitted message that is not empty, and rebinds the
\* global MAX_HISTORY_TOKENS to the slider's value first (lines 573-581).
add_message_invalid(user_input) ==
    /\ Between
    /\ IsInvalidInput(user_input)
    /\ result' = Some(MSG_INVALID_INPUT)
    /\ pc' = "done"
    /\ received' = <<>> /\ sent' = <<>> /\ sleeps' = <<>>
    /\ lookups' = <<>> /\ writes' = <<>>
    /\ given' = user_input
    /\ before' = <<user_inputs, bot_responses, cache, now>>
    /\ max_history_tokens' = IF user_input # "" THEN max_tokens
                             ELSE max_history_tokens
    /\ UNCHANGED <<session, cache, now, locals, events, trunc, cachelog, extra,
                   max_tokens>>

\* add_message with a valid message, up to the first attempt of query:
\* lines 366-400 and 200-215, after main has rebound the global
\* MAX_HISTORY_TOKENS to the slider's value (lines 576-578).
add_message(user_input) ==
    /\ Between
    /\ ~IsInvalidInput(user_input)
    /\ events < MaxEvents
    /\ events' = events + 1
    /\ LET p == truncate_text(UserQuery(user_input), MAX_INPUT_LENGTH)
           cached_response == get_cached_response(cache, p, now)
       IN  /\ user_inputs' = Append(user_inputs, KeepFirst(user_input, MAX_INPUT_LENGTH))
           /\ lookups' = <<<<p, cached_response>>>>
           /\ IF Truthy(cached_response)
              THEN Return(cached_response[1])
              ELSE /\ prompt' = p
                   /\ payload' = [inputs |-> p]
                   /\ attempt' = 1
                   /\ pc' = "attempt"
                   /\ result' = None
                   /\ UNCHANGED <<bot_responses, wait>>
    /\ received' = <<>> /\ sent' = <<>> /\ sleeps' = <<>> /\ writes' = <<>>
    /\ given' = user_input
    /\ before' = <<user_inputs, bot_responses, cache, now>>
    /\ max_history_tokens' = max_tokens
    /\ UNCHANGED <<cache, now, trunc, cachelog, extra, max_tokens>>

\* One attempt: requests.post gets the answer resp, lines 219-311.
Attempt(resp) ==
    /\ pc = "attempt"
    /\ IsFault(resp) => events < MaxEvents
    /\ events' = IF IsFault(resp) THEN events + 1 ELSE events
    /\ received' = Append(received, resp)
    /\ sent' = Append(sent, payload.inputs)
    /\ LET h == Handle(resp, attempt, prompt) IN
       CASE h.then = "return" ->
              /\ cache' = IF h.store
                          THEN cache_response(cache, prompt, h.reply, now)
                          ELSE cache
              /\ writes' = IF h.store
                           THEN Append(writes, <<prompt, h.reply>>) ELSE writes
              /\ Return(h.reply)
         [] h.then = "continue" ->
              /\ NextIteration(h.prompt)
              /\ UNCHANGED <<cache, writes>>
         [] h.then = "sleep" ->
              /\ pc' = "sleep"
              /\ wait' = Pow2(attempt)
              /\ UNCHANGED <<cache, writes, attempt, prompt, payload, result,
                             bot_responses>>
    /\ UNCHANGED <<user_inputs, now, sleeps, lookups, given, before, trunc,
                   cachelog, extra,
                   settings>>

\* time.sleep(wait) ends: lines 263, 277, 282, 293, 305.
Sleep ==
    /\ pc = "sleep"
    /\ now' = now + wait
    /\ sleeps' = Append(sleeps, wait)
    /\ IF InRange(attempt + 1)
       THEN /\ attempt' = attempt + 1
            /\ pc' = "attempt"
            /\ wait' = 0
            /\ UNCHANGED <<prompt, payload, result, bot_responses>>
       ELSE Return(MSG_RETRIES_EXHAUSTED)
    /\ UNCHANGED <<user_inputs, cache, received, sent, lookups, writes, given,
                   before, events, trunc, cachelog, extra,
                   settings>>

\* The "Limpar Conversa" button, lines 525-532.
ClearConversation ==
    /\ Between
    /\ user_inputs # <<>>
    /\ user_inputs' = <<>> /\ bot_responses' = <<>>
    /\ pc' = "idle" /\ result' = None
    /\ received' = <<>> /\ sent' = <<>> /\ sleeps' = <<>>
    /\ lookups' = <<>> /\ writes' = <<>> /\ given' = "" /\ before' = NoBefore
    /\ UNCHANGED <<cache, now, locals, events, trunc, cachelog, extra,
                   settings>>

\* Time passes between two calls.
Tick ==
    /\ Between
    /\ events < MaxEvents
    /\ events' = events + 1
    /\ \E d \in TickSteps : now' = now + d
    /\ pc' = "idle" /\ result' = None
    /\ received' = <<>> /\ sent' = <<>> /\ sleeps' = <<>>
    /\ lookups' = <<>> /\ writes' = <<>> /\ given' = "" /\ before' = NoBefore
    /\ UNCHANGED <<session, cache, locals, trunc, cachelog, extra,
                   settings>>

Next ==
    \/ \E m \in UserMessages : add_message_invalid(m)
    \/ \E m \in UserMessages : add_message(m)
    \/ \E resp \in Answers : Attempt(resp)
    \/ Sleep
    \/ ClearConversation
    \/ Tick

Spec == Init /\ [][Next]_vars

(***************************************************************************)
(* query as steps of a call that is a value: its locals (pc, attempt,      *)
(* prompt, payload, wait, result), whether its backing store fails, the    *)
(* time its sleep ends, and what it has done (missed, sent, sleeps, reply).*)
(* Calls that run side by side are such values over one table.             *)
(***************************************************************************)
\* query(p) entered: line 200.
NewCall(p, db_fails) ==
    [pc |-> "lookup", attempt |-> 0,
     prompt |-> truncate_text(p, MAX_INPUT_LENGTH), payload |-> NoPayload,
     wait |-> 0, wake |-> 0, result |-> "", db_fails |-> db_fails,
     missed |-> FALSE, sent |-> <<>>, sleeps |-> <<>>, reply |-> None]

CallReturn(c, reply) ==
    [c EXCEPT !.pc = "done", !.reply = Some(reply), !.wait = 0, !.wake = 0,
              !.result = ""]

\* The loop goes to its next attempt, or ends and line 313 returns.
CallNextIteration(c, p) ==
    IF InRange(c.attempt + 1)
    THEN [c EXCEPT !.pc = "attempt", !.attempt = c.attempt + 1, !.prompt = p,
                   !.wait = 0, !.wake = 0]
    ELSE CallReturn(c, MSG_RETRIES_EXHAUSTED)

\* Lines 203-215: the lookup, and the payload after a miss.
CallLookup(c, table, current_time) ==
    LET cached_response == cache_read(table, c.prompt, current_time, c.db_fails) IN
    IF Truthy(cached_response) THEN CallReturn(c, cached_response[1])
    ELSE [c EXCEPT !.pc = "attempt", !.attempt = 1, !.missed = TRUE,
                   !.payload = [inputs |-> c.prompt]]

\* Lines 219-311: requests.post gets the answer resp.
CallPost(c, resp, current_time) ==
    LET h == Handle(resp, c.attempt, c.prompt)
        posted == [c EXCEPT !.sent = Append(c.sent, c.payload.inputs)]
    IN  CASE h.then = "return" ->
               IF h.store THEN [posted EXCEPT !.pc = "store", !.result = h.reply]
               ELSE CallReturn(posted, h.reply)
          [] h.then = "continue" -> CallNextIteration(posted, h.prompt)
          [] h.then = "sleep" ->
               [posted EXCEPT !.pc = "sleep", !.wait = Pow2(c.attempt),
                              !.wake = current_time + Pow2(c.attempt)]

\* Line 268: the table after APICache.cache_response(prompt, result).
CallStoreTable(c, table, current_time) ==
    cache_write(table, c.prompt, c.result, current_time, c.db_fails)

\* Line 270: return result.
CallStored(c) == CallReturn(c, c.result)

\* time.sleep(wait) ends: the clock is not before the end of the sleep.
CallWakeTime(c, current_time) == IF current_time < c.wake THEN c.wake ELSE current_time

CallSleep(c) ==
    CallNextIteration([c EXCEPT !.sleeps = Append(c.sleeps, c.wait)], c.prompt)

(***************************************************************************)
(* TokenManager.truncate_history on its own: an argument is drawn, and the *)
(* function is applied to it and then to its own result.                   *)
(***************************************************************************)
\* The longest history drawn.
MaxHistory == 11

\* A pair of 0 + 2 tokens and a pair of 128 + 300 tokens (512 and 1203
\* characters): two of the second exceed MAX_HISTORY_TOKENS, one exceeds half
\* of it.
SMALL_PAIR == [input |-> "oi", response |-> "Hello there"]
BIG_PAIR == [input |-> Rep("x", MAX_INPUT_LENGTH),
             response |-> Rep("y", 1200) \o "end"]
PairTypes == {SMALL_PAIR, BIG_PAIR}
TokenBudgets == {MAX_HISTORY_TOKENS, MAX_HISTORY_TOKENS \div 2}

InitTrunc ==
    /\ InitSession /\ InitCacheIdle /\ InitExtraIdle /\ InitSettings
    /\ \E n \in 0..MaxHistory : \E f \in [1..n -> PairTypes] :
          th_args = <<[i \in 1..n |-> f[i].input], [i \in 1..n |-> f[i].response]>>
    /\ th_max \in TokenBudgets
    /\ th_once = NoHistory /\ th_twice = NoHistory /\ th_step = 0

TruncateOnce ==
    /\ th_step = 0
    /\ th_once' = truncate_history(th_args[1], th_args[2], th_max)
    /\ th_step' = 1
    /\ UNCHANGED <<session, cache, now, pc, locals, result, history, events,
                   th_args, th_max, th_twice, cachelog, extra,
                   settings>>

TruncateTwice ==
    /\ th_step = 1
    /\ th_twice' = truncate_history(th_once[1], th_once[2], th_max)
    /\ th_step' = 2
    /\ UNCHANGED <<session, cache, now, pc, locals, result, history, events,
                   th_args, th_max, th_once, cachelog, extra,
                   settings>>

NextTrunc == TruncateOnce \/ TruncateTwice

SpecTrunc == InitTrunc /\ [][NextTrunc]_vars

\* The approximate token cost of a history, as line 113 computes it.
Cost(h) == SumTokens(h[1] \o h[2])

\* b is a suffix of a.
IsSuffix(b, a) == Len(b) <= Len(a) /\ b = SubSeq(a, Len(a) - Len(b) + 1, Len(a))

\* C3: truncate_history is idempotent on every history whose approximate
\* token cost exceeds the budget, whatever its length: applied to its own
\* result it returns that result.
C3_IdempotentOverBudget ==
    (th_step = 2 /\ Cost(th_args) > th_max) => th_twice = th_once

\* C3 on the histories of at most MAX_CONVERSATION_TURNS pairs.
C3_IdempotentWithinTurns ==
    (th_step = 2 /\ Cost(th_args) > th_max
       /\ Len(th_args[1]) <= MAX_CONVERSATION_TURNS) => th_twice = th_once

\* C4: the result of truncate_history is a suffix of its argument, the same
\* number of most recent inputs and responses (so input i stays with
\* response i), of at most MAX_CONVERSATION_TURNS pairs.
C4_SuffixWithinTurns ==
    th_step >= 1 =>
        /\ IsSuffix(th_once[1], th_args[1])
        /\ IsSuffix(th_once[2], th_args[2])
        /\ Len(th_once[1]) = Len(th_once[2])
        /\ Len(th_once[1]) <= MAX_CONVERSATION_TURNS

\* C4's case: a history of more than MAX_CONVERSATION_TURNS pairs of both
\* kinds was cut to the most recent ones.
C4_Witness ==
    /\ th_step >= 1
    /\ Len(th_args[1]) > MAX_CONVERSATION_TURNS
    /\ th_args[2][1] # th_args[2][Len(th_args[2])]
    /\ Len(th_once[1]) = MAX_CONVERSATION_TURNS

\* C4's other case: the token budget dropped some but not all pairs.
C4_WitnessBudget ==
    /\ th_step >= 1
    /\ Len(th_args[1]) <= MAX_CONVERSATION_TURNS
    /\ Len(th_once[1]) < Len(th_args[1])
    /\ th_once[1] # <<>>

(***************************************************************************)
(* APICache on its own: any sequence of cache_response and                 *)
(* get_cached_response calls on a working table, while the clock advances. *)
(***************************************************************************)
\* The cache_response calls and clock steps of one run.
MaxCacheOps == 4

CacheQueries == {"oi", "ola"}
CacheResponses == {"Hello there", "Hi"}

InitCache ==
    /\ InitSession /\ InitTruncIdle /\ InitExtraIdle /\ InitSettings
    /\ stored = [q \in CacheQueries |-> None]
    /\ looked = <<>>

CacheStore(q, r) ==
    /\ events < MaxCacheOps
    /\ events' = events + 1
    /\ cache' = cache_response(cache, q, r, now)
    /\ stored' = [stored EXCEPT
                     ![q] = Some([response |-> r, at |-> now, hit |-> FALSE,
                                  replaced |-> stored[q] # None
                                               /\ stored[q][1].response # r])]
    /\ looked' = <<>>
    /\ UNCHANGED <<session, now, pc, locals, result, history, trunc, extra,
                   settings>>

\* The SELECT of get_cached_response writes nothing: the table is unchanged.
\* stored notes that the latest store to q has been returned by a lookup.
CacheLookup(q) ==
    /\ looked' = <<[query |-> q, at |-> now,
                    returned |-> get_cached_response(cache, q, now)]>>
    /\ stored' = IF stored[q] # None /\ get_cached_response(cache, q, now) # None
                 THEN [stored EXCEPT ![q] = Some([stored[q][1] EXCEPT !.hit = TRUE])]
                 ELSE stored
    /\ UNCHANGED <<session, cache, now, pc, locals, result, history, events,
                   trunc, extra,
                   settings>>

CacheTick ==
    /\ events < MaxCacheOps
    /\ events' = events + 1
    /\ \E d \in TickSteps : now' = now + d
    /\ looked' = <<>>
    /\ UNCHANGED <<session, cache, pc, locals, result, history, trunc, stored,
                   extra, settings>>

NextCache ==
    \/ \E q \in CacheQueries, r \in CacheResponses : CacheStore(q, r)
    \/ \E q \in CacheQueries : CacheLookup(q)
    \/ CacheTick

SpecCache == InitCache /\ [][NextCache]_vars

\* The latest store to the query of the latest lookup, and its age then.
LookedStore == stored[looked[1].query][1]
LookedAge == looked[1].at - LookedStore.at
LookedAfterStore == looked # <<>> /\ stored[looked[1].query] # None

\* C5: a lookup of q made less than CACHE_EXPIRY seconds after the most
\* recent store to q returns the response of that store, whatever was
\* stored to q or to other queries before.
C5_RoundTrip ==
    (LookedAfterStore /\ LookedAge < CACHE_EXPIRY)
        => looked[1].returned = Some(LookedStore.response)

\* C5's case: q was stored twice with different responses and then looked up
\* one second before the expiry of the second store.
C5_Witness ==
    /\ LookedAfterStore
    /\ LookedStore.replaced
    /\ LookedAge = CACHE_EXPIRY - 1
    /\ looked[1].returned = Some("Hi")

\* The row of the latest store to q is in the table, with the time of that
\* store.
RowOfLatestStore(q) ==
    [query_hash |-> compute_hash(q), response |-> stored[q][1].response,
     timestamp |-> stored[q][1].at] \in cache

\* C6: a lookup of q made CACHE_EXPIRY seconds or more after the most recent
\* store to q returns absence; the row of that store stays in the table with
\* its time of storage until the next store to q, whatever lookups are made.
C6_ExpiredIsAbsent ==
    /\ (LookedAfterStore /\ LookedAge >= CACHE_EXPIRY) => looked[1].returned = None
    /\ \A q \in CacheQueries : stored[q] # None => RowOfLatestStore(q)

\* C6's case: a lookup exactly CACHE_EXPIRY seconds after the store found the
\* row expired, and the row is still in the table.
C6_Witness ==
    /\ LookedAfterStore
    /\ LookedAge = CACHE_EXPIRY
    /\ looked[1].returned = None
    /\ RowOfLatestStore(looked[1].query)

\* C6's other case: an entry that a lookup had returned was found expired by
\* a later lookup.
C6_WitnessAfterHit ==
    /\ LookedAfterStore
    /\ LookedStore.hit
    /\ LookedAge >= CACHE_EXPIRY
    /\ looked[1].returned = None

(***************************************************************************)
(* HuggingFaceClient._extract_response on its own: a decoded body is       *)
(* drawn, and the function is applied to it.                               *)
(***************************************************************************)
\* Texts of 4, 5, 6, 8 and 13 characters, with and without blanks around
\* them; values that are text and values that are not; the dicts of at most
\* two fields over three keys; the bodies made of them.
ExtractTexts == {" Hi ", "abcde", " abcd ", " abcdef ", "model loading"}
ExtractValues == {JStr(t) : t \in ExtractTexts} \cup {JNum(7), JList(<<>>)}
ExtractKeys == {"generated_text", "error", "text"}
ExtractDicts ==
    {JDict(<<>>)}
        \cup {JDict(<<<<k, v>>>>) : k \in ExtractKeys, v \in ExtractValues}
        \cup {JDict(<<<<k[1], v>>, <<k[2], w>>>>) :
                 k \in {kk \in ExtractKeys \X ExtractKeys : kk[1] # kk[2]},
                 v \in ExtractValues, w \in ExtractValues}
Payloads ==
    ExtractDicts
        \cup {JList(<<d>>) : d \in ExtractDicts}
        \cup {JList(<<JDict(<<>>), d>>) : d \in {VALID_DATA.elems[1], ERROR_DATA}}
        \cup {JList(<<>>), JList(<<JStr("abcdef")>>), JStr("abcdef"), JNum(7)}

InitExtract ==
    /\ InitSession /\ InitTruncIdle /\ InitCacheIdle /\ InitCallsIdle
    /\ InitSettings
    /\ \E d \in Payloads : ex_data = Some(d)
    /\ ex_text = None

Extract ==
    /\ ex_text = None
    /\ ex_text' = Some(extract_response(ex_data[1]))
    /\ UNCHANGED <<session, cache, now, pc, locals, result, history, events,
                   trunc, cachelog, calls, written, ex_data,
                   settings>>

NextExtract == Extract

SpecExtract == InitExtract /\ [][NextExtract]_vars

\* The record whose fields the fallback scan goes through: the body when it
\* is a dict, its first element when it is a list that starts with a dict.
StartsWithDict(d) == IsList(d) /\ d.elems # <<>> /\ IsDict(d.elems[1])
HasScanned(d) == IsDict(d) \/ StartsWithDict(d)
Scanned(d) == IF IsDict(d) THEN d ELSE d.elems[1]

\* The positions of the text fields of more than SCAN_MIN_LENGTH characters.
LongTexts(rec) ==
    {i \in 1..Len(rec.items) :
        IsStr(rec.items[i][2]) /\ Len(rec.items[i][2].s) > SCAN_MIN_LENGTH}
FirstLongText(rec) ==
    rec.items[CHOOSE i \in LongTexts(rec) : \A j \in LongTexts(rec) : i <= j][2].s

\* The generated text of rec, trimmed; the marker when it is not text.
TrimmedOrMarker(rec) ==
    LET g == GetKey(rec, "generated_text") IN
    IF IsStr(g) THEN strip(g.s) ELSE MSG_UNEXPECTED_FORMAT

\* C16: _extract_response returns a string for every body, by a fixed
\* priority: the trimmed generated text of a record, even beside an error
\* field; else the error string with the indicator of a record; else the
\* trimmed generated text of the first element of a list; else the first
\* text field of more than 5 characters of the record or of the first
\* element; else the marker.  A generated text that is not text gives the
\* marker.
C16_ExtractPriority ==
    ex_text # None =>
        LET d == ex_data[1]
            t == ex_text[1]
        IN  /\ t \in STRING
            /\ IF IsDict(d) /\ HasKey(d, "generated_text")
               THEN t = TrimmedOrMarker(d)
               ELSE IF IsDict(d) /\ HasKey(d, "error")
               THEN /\ t = "(!) Erro da API: " \o Format(GetKey(d, "error"))
                    /\ Contains(t, Format(GetKey(d, "error")))
               ELSE IF StartsWithDict(d) /\ HasKey(d.elems[1], "generated_text")
               THEN t = TrimmedOrMarker(d.elems[1])
               ELSE IF HasScanned(d) /\ LongTexts(Scanned(d)) # {}
               THEN t = strip(FirstLongText(Scanned(d)))
               ELSE t = MSG_UNEXPECTED_FORMAT

\* C16's case: a record with a generated text after an error field gave the
\* generated text, trimmed.
C16_Witness ==
    /\ ex_text = Some("Hi")
    /\ IsDict(ex_data[1])
    /\ ex_data[1].items[1][1] = "error"
    /\ HasKey(ex_data[1], "generated_text")

\* C16's other cases: a generated text that is a number gave the marker
\* although a long text field stands beside it; the scan skipped a text of 5
\* characters and trimmed one of 6; a list of a record with an error field
\* gave the field's text, not the error string.
C16_WitnessMalformed ==
    /\ ex_text = Some(MSG_UNEXPECTED_FORMAT)
    /\ ex_data[1] = JDict(<<<<"generated_text", JNum(7)>>,
                            <<"text", JStr("model loading")>>>>)

C16_WitnessScan ==
    /\ ex_text = Some("abcd")
    /\ ex_data[1] = JList(<<JDict(<<<<"text", JStr("abcde")>>,
                                    <<"error", JStr(" abcd ")>>>>)>>)

(***************************************************************************)
(* ChatSession.add_message on a session that has a history: the history is *)
(* drawn, one message is sent and its first request is made.               *)
(***************************************************************************)
\* A pair that alone exceeds MAX_HISTORY_TOKENS (0 + 850 tokens), and a pair
\* whose last CONTEXT_CHARS characters span the input and the response.
HUGE_PAIR == [input |-> "ola", response |-> Rep("w", 3400)]
MID_PAIR == [input |-> LONG_MESSAGE, response |-> "Hello there"]
PromptPairs == {SMALL_PAIR, BIG_PAIR, HUGE_PAIR, MID_PAIR}

\* The pairs that vary in a drawn history: its most recent ones.  The older
\* pairs are SMALL_PAIR.
VariedPairs == 3

\* The values of the slider "Contexto maximo (tokens)", lines 536-543.
SLIDER_MIN == 100
SLIDER_MAX == 1000
SLIDER_STEP == 100
SliderValues ==
    {v \in SLIDER_MIN..SLIDER_MAX : (v - SLIDER_MIN) % SLIDER_STEP = 0}

\* A message of more than MAX_INPUT_LENGTH characters.
OVERLONG_MESSAGE == Rep("z", MAX_INPUT_LENGTH) \o "tail"
PromptMessages == {"oi", LONG_MESSAGE, OVERLONG_MESSAGE}

PromptHistories ==
    UNION {{[i \in 1..n |-> IF i <= n - VariedPairs THEN SMALL_PAIR
                            ELSE f[n - i + 1]] :
               f \in [1..(IF n < VariedPairs THEN n ELSE VariedPairs) -> PromptPairs]} :
           n \in 0..MaxHistory}

InitPrompt ==
    /\ InitTruncIdle /\ InitCacheIdle /\ InitExtraIdle
    /\ max_tokens \in SliderValues
    /\ max_history_tokens = MAX_HISTORY_TOKENS
    /\ \E h \in PromptHistories :
          /\ user_inputs = [i \in 1..Len(h) |-> h[i].input]
          /\ bot_responses = [i \in 1..Len(h) |-> h[i].response]
    /\ cache = {} /\ now = 0
    /\ pc = "idle"
    /\ attempt = 0 /\ prompt = "" /\ payload = NoPayload /\ wait = 0
    /\ result = None
    /\ received = <<>> /\ sent = <<>> /\ sleeps = <<>>
    /\ lookups = <<>> /\ writes = <<>> /\ given = "" /\ before = NoBefore
    /\ events = 0

\* The first add_message of the run, and the first request of its query.
PromptCall(user_input) == given = "" /\ add_message(user_input)
PromptAttempt == sent = <<>> /\ Attempt(HttpJson(VALID_DATA))

NextPrompt ==
    \/ \E m \in PromptMessages : PromptCall(m)
    \/ PromptAttempt

SpecPrompt == InitPrompt /\ [][NextPrompt]_vars

\* The message of the current call, clamped to MAX_INPUT_LENGTH characters.
ClampedMessage ==
    IF Len(given) > MAX_INPUT_LENGTH THEN SubSeq(given, 1, MAX_INPUT_LENGTH)
    ELSE given

\* The most recent pair of the history the call started with.
LastInput == before[1][Len(before[1])]
LastResponse == before[2][Len(before[2])]

\* A pair of the history is left for the context: the history is longer than
\* MAX_CONVERSATION_TURNS, or its most recent pair is within the budget.
PairRemains ==
    /\ before[1] # <<>>
    /\ \/ Len(before[1]) > MAX_CONVERSATION_TURNS
       \/ Len(LastInput) \div 4 + Len(LastResponse) \div 4 <= MAX_HISTORY_TOKENS

\* The context: the most recent pair joined by a space, cut to its trailing
\* CONTEXT_CHARS characters.
ContextText ==
    LET pair == LastInput \o " " \o LastResponse IN
    IF Len(pair) > CONTEXT_CHARS
    THEN SubSeq(pair, Len(pair) - CONTEXT_CHARS + 1, Len(pair)) ELSE pair

\* The assembled prompt of the current call.
AssembledPrompt ==
    IF PairRemains THEN ContextText \o " " \o ClampedMessage ELSE ClampedMessage

EndsWith(s, tail) ==
    Len(tail) <= Len(s) /\ SubSeq(s, Len(s) - Len(tail) + 1, Len(s)) = tail

\* C20: for every history and every non-empty message, the string looked up
\* in the cache and sent in the first request is exactly the assembled
\* prompt (context, separator and clamped message when a history pair
\* remains, else the clamped message), so it ends with the whole clamped
\* message.
C20_PromptIsAssembled ==
    lookups # <<>> =>
        /\ lookups[1][1] = AssembledPrompt
        /\ sent # <<>> => sent[1] = AssembledPrompt
        /\ EndsWith(lookups[1][1], ClampedMessage)

\* C20 with the cut of query (line 200): the string looked up and sent is
\* the assembled prompt cut to its first MAX_INPUT_LENGTH characters; it is
\* the assembled prompt, and ends with the whole clamped message, when the
\* assembled prompt has at most MAX_INPUT_LENGTH characters.
C20_PromptIsCutAssembly ==
    lookups # <<>> =>
        LET p == lookups[1][1] IN
        /\ p = IF Len(AssembledPrompt) > MAX_INPUT_LENGTH
               THEN SubSeq(AssembledPrompt, 1, MAX_INPUT_LENGTH)
               ELSE AssembledPrompt
        /\ sent # <<>> => sent[1] = p
        /\ Len(AssembledPrompt) <= MAX_INPUT_LENGTH =>
               (p = AssembledPrompt /\ EndsWith(p, ClampedMessage))

\* C20's case: a context of CONTEXT_CHARS characters that spans the input
\* and the response of the most recent pair, before a message of 340
\* characters: the prompt sent is cut and has lost the end of the message.
C20_Witness ==
    /\ sent # <<>>
    /\ given = LONG_MESSAGE
    /\ Len(before[1]) > 1
    /\ LastInput = LONG_MESSAGE /\ before[1][1] # LONG_MESSAGE
    /\ Len(sent[1]) = MAX_INPUT_LENGTH
    /\ ~EndsWith(sent[1], ClampedMessage)

\* C20's other cases: the budget left no pair of a history, and the message
\* went alone; a message of more than MAX_INPUT_LENGTH characters went
\* clamped after a short context.
C20_WitnessNoPair ==
    /\ sent # <<>>
    /\ before[1] # <<>> /\ ~PairRemains
    /\ sent[1] = "oi"

C20_WitnessWhole ==
    /\ sent # <<>>
    /\ given = LONG_MESSAGE
    /\ PairRemains /\ Len(ContextText) < CONTEXT_CHARS
    /\ EndsWith(sent[1], LONG_MESSAGE)
    /\ Len(sent[1]) > Len(LONG_MESSAGE)

\* The prompt of the current call if its history were truncated with the
\* token budget max_budget.
PromptUnderBudget(max_budget) ==
    LET truncated == truncate_history(before[1], before[2], max_budget) IN
    truncate_text(AssemblePrompt(truncated[1], truncated[2], ClampedMessage),
                  MAX_INPUT_LENGTH)

\* C21: when the slider is set to a budget before a message is processed,
\* the global is rebound to it and the truncation of the history that
\* add_message performs for that message uses it: the prompt is the one the
\* history truncated to the slider's budget gives.
C21_SliderBudgetUsed ==
    lookups # <<>> =>
        /\ max_history_tokens = max_tokens
        /\ lookups[1][1] = PromptUnderBudget(max_tokens)

\* What the code does: main rebinds the global to the slider's value, and
\* truncate_history goes on with the budget its parameter got as default
\* when the module was loaded.
C21_LoadedBudgetUsed ==
    lookups # <<>> =>
        /\ max_history_tokens = max_tokens
        /\ lookups[1][1] = PromptUnderBudget(MAX_HISTORY_TOKENS)

(***************************************************************************)
(* query with a backing store that fails, beside query with a working      *)
(* table that starts empty: calls[1] and calls[2] get the same prompt and, *)
(* attempt by attempt, the same answers.                                   *)
(***************************************************************************)
StorePrompts == {"oi", LONG_MESSAGE}

InitStore ==
    /\ InitSession /\ InitTruncIdle /\ InitCacheIdle /\ InitExtractIdle
    /\ InitSettings
    /\ \E p \in StorePrompts : calls = <<NewCall(p, FALSE), NewCall(p, TRUE)>>
    /\ written = <<>>

\* Both calls stand at the same place of query.
Both(place) == calls[1].pc = place /\ calls[2].pc = place

StoreLookup ==
    /\ Both("lookup")
    /\ calls' = <<CallLookup(calls[1], cache, now), CallLookup(calls[2], cache, now)>>
    /\ UNCHANGED <<session, cache, now, pc, locals, result, history, events,
                   trunc, cachelog, written, ex_data, ex_text,
                   settings>>

StorePost(resp) ==
    /\ Both("attempt")
    /\ calls' = <<CallPost(calls[1], resp, now), CallPost(calls[2], resp, now)>>
    /\ UNCHANGED <<session, cache, now, pc, locals, result, history, events,
                   trunc, cachelog, written, ex_data, ex_text,
                   settings>>

StoreWrite ==
    /\ Both("store")
    /\ cache' = CallStoreTable(calls[2], CallStoreTable(calls[1], cache, now), now)
    /\ calls' = <<CallStored(calls[1]), CallStored(calls[2])>>
    /\ UNCHANGED <<session, now, pc, locals, result, history, events,
                   trunc, cachelog, written, ex_data, ex_text,
                   settings>>

StoreSleep ==
    /\ Both("sleep")
    /\ now' = CallWakeTime(calls[1], now)
    /\ calls' = <<CallSleep(calls[1]), CallSleep(calls[2])>>
    /\ UNCHANGED <<session, cache, pc, locals, result, history, events,
                   trunc, cachelog, written, ex_data, ex_text,
                   settings>>

NextStore ==
    \/ StoreLookup
    \/ \E resp \in Answers : StorePost(resp)
    \/ StoreWrite
    \/ StoreSleep

SpecStore == InitStore /\ [][NextStore]_vars

\* C15: a call whose backing store fails on every lookup and every store
\* goes the way of a call with a working table that starts empty, for the
\* same answers of the endpoint: its lookup is a miss, it sends the same
\* requests, sleeps the same delays and returns the same string.
C15_CacheFailureIsHarmless ==
    (Len(calls) = 2 /\ calls[2].db_fails /\ ~calls[1].db_fails) =>
        /\ calls[2].pc = calls[1].pc
        /\ calls[2].attempt = calls[1].attempt
        /\ calls[2].sent = calls[1].sent
        /\ calls[2].sleeps = calls[1].sleeps
        /\ calls[2].reply = calls[1].reply
        /\ calls[2].pc # "lookup" => calls[2].missed

\* C15's case: both calls returned the extracted text on the third request,
\* and only the working table has a row.
C15_Witness ==
    /\ Len(calls) = 2 /\ calls[2].db_fails
    /\ Both("done")
    /\ Len(calls[2].sent) = MAX_RETRIES
    /\ calls[2].reply = Some("Hello there")
    /\ calls[1].reply = Some("Hello there")
    /\ cache # {}

(***************************************************************************)
(* Calls of query that run side by side (one per session thread of the     *)
(* server) on one table.  A step of a call is its lookup (one SELECT), one *)
(* request with its except clauses, its store (one INSERT OR REPLACE) or   *)
(* the end of its sleep.                                                   *)
(***************************************************************************)
\* The calls that run side by side.
MaxCalls == 2

ConcPrompts == {"oi", "ola"}
ConcAnswers == {HttpJson(VALID_DATA), HttpJson(ERROR_DATA), Http(503)}

InitConc ==
    /\ InitSession /\ InitTruncIdle /\ InitCacheIdle /\ InitExtractIdle
    /\ InitSettings
    /\ calls \in [1..MaxCalls -> {NewCall(p, FALSE) : p \in ConcPrompts}]
    /\ written = [q \in ConcPrompts |-> None]

ConcLookup(i) ==
    /\ calls[i].pc = "lookup"
    /\ calls' = [calls EXCEPT ![i] = CallLookup(calls[i], cache, now)]
    /\ UNCHANGED <<session, cache, now, pc, locals, result, history, events,
                   trunc, cachelog, written, ex_data, ex_text,
                   settings>>

ConcPost(i, resp) ==
    /\ calls[i].pc = "attempt"
    /\ calls' = [calls EXCEPT ![i] = CallPost(calls[i], resp, now)]
    /\ UNCHANGED <<session, cache, now, pc, locals, result, history, events,
                   trunc, cachelog, written, ex_data, ex_text,
                   settings>>

ConcStore(i) ==
    /\ calls[i].pc = "store"
    /\ cache' = CallStoreTable(calls[i], cache, now)
    /\ written' = [written EXCEPT ![calls[i].prompt] = Some(calls[i].result)]
    /\ calls' = [calls EXCEPT ![i] = CallStored(calls[i])]
    /\ UNCHANGED <<session, now, pc, locals, result, history, events,
                   trunc, cachelog, ex_data, ex_text,
                   settings>>

ConcSleep(i) ==
    /\ calls[i].pc = "sleep"
    /\ now' = CallWakeTime(calls[i], now)
    /\ calls' = [calls EXCEPT ![i] = CallSleep(calls[i])]
    /\ UNCHANGED <<session, cache, pc, locals, result, history, events,
                   trunc, cachelog, written, ex_data, ex_text,
                   settings>>

NextConc ==
    \/ \E i \in 1..MaxCalls : ConcLookup(i)
    \/ \E i \in 1..MaxCalls, resp \in ConcAnswers : ConcPost(i, resp)
    \/ \E i \in 1..MaxCalls : ConcStore(i)
    \/ \E i \in 1..MaxCalls : ConcSleep(i)

SpecConc == InitConc /\ [][NextConc]_vars

AllDone == \A i \in 1..Len(calls) : calls[i].pc = "done"

\* The rows of the table for query q.
RowsOf(q) == {r \in cache : r.query_hash = compute_hash(q)}

\* C18: under every interleaving of the calls the table holds at most one
\* row per fingerprint, and once all calls have returned the row of a
\* fingerprint holds the response of the last store to it.
C18_LastWriterWins ==
    written # <<>> =>
        /\ \A q \in DOMAIN written : Cardinality(RowsOf(q)) <= 1
        /\ \A r \in cache : \E q \in DOMAIN written : r \in RowsOf(q)
        /\ AllDone =>
              \A q \in DOMAIN written :
                  IF written[q] = None THEN RowsOf(q) = {}
                  ELSE \E r \in RowsOf(q) : r.response = written[q][1]

\* C18's case: two calls for the same prompt both missed, both made a
\* request and both stored, with different responses; the row holds the
\* response stored last.
C18_Witness ==
    /\ written # <<>>
    /\ AllDone
    /\ calls[1].prompt = calls[2].prompt
    /\ calls[1].missed /\ calls[2].missed
    /\ calls[1].sent # <<>> /\ calls[2].sent # <<>>
    /\ calls[1].reply = Some("Hello there")
    /\ calls[2].reply = Some(MSG_API_ERROR("model loading"))
    /\ written[calls[1].prompt] = Some("Hello there")
    /\ \E r \in RowsOf(calls[1].prompt) : r.response = "Hello there"

\* C18's other case: a call that started after another call's store found
\* the row and made no request.
C18_WitnessHit ==
    /\ written # <<>>
    /\ AllDone
    /\ calls[1].prompt = calls[2].prompt
    /\ calls[1].missed /\ ~calls[2].missed
    /\ calls[2].reply = calls[1].reply

(***************************************************************************)
(* Properties of the session: add_message and query under Spec.            *)
(***************************************************************************)
Done == pc = "done"
InCall == pc \in {"attempt", "sleep"}
Reply == result[1]

\* Every attempt of the current call was answered with status code 429.
AllRateLimited ==
    /\ received # <<>>
    /\ \A i \in 1..Len(received) :
          received[i].kind = "http" /\ received[i].status_code = 429

StrictlyIncreasing(seq) == \A i \in 1..Len(seq) - 1 : seq[i] < seq[i + 1]

\* The message of line 313 follows the loop and names no failure class; the
\* others are the messages the branches of the other classes return.
GenericMessages == {MSG_RETRIES_EXHAUSTED}
OtherClassMessages ==
    {MSG_BAD_REQUEST, MSG_SERVER_ERROR, MSG_TIMEOUT, MSG_CONNECTION,
     MSG_INVALID_RESPONSE, MSG_FALLBACK, MSG_UNEXPECTED_FORMAT,
     MSG_ADD_MESSAGE_ERROR, MSG_INVALID_INPUT}

\* C1: a call whose every attempt is answered 429 makes exactly MAX_RETRIES
\* requests, sleeps strictly increasing delays of 2^attempt seconds, and
\* returns a message that is specific to rate limiting: not the generic
\* message and not the message of another failure class.
C1_RateLimitMessage ==
    (Done /\ AllRateLimited) =>
        /\ Len(sent) = MAX_RETRIES
        /\ StrictlyIncreasing(sleeps)
        /\ \A i \in 1..Len(sleeps) : sleeps[i] = Pow2(i)
        /\ Reply \notin GenericMessages \cup OtherClassMessages

\* What the code does in C1's case: three requests, a sleep after each of
\* them (also after the last), and the message of line 313.
C1_AsCoded ==
    (Done /\ AllRateLimited) =>
        /\ Len(sent) = MAX_RETRIES
        /\ sleeps = <<2, 4, 8>>
        /\ Reply = MSG_RETRIES_EXHAUSTED

\* C2: when a call stores a response, the key it writes is the fingerprint of
\* the prompt that the request of its last (successful) attempt carried; so
\* after a 400 and then a 200 with valid text the reply is the extracted text
\* and the key is the prompt sent in the retry, for every prompt.
C2_CachedKeyIsSentPrompt ==
    (Done /\ writes # <<>>) =>
        /\ compute_hash(writes[Len(writes)][1]) = compute_hash(sent[Len(sent)])
        /\ Reply = writes[Len(writes)][2]

\* C2 on the prompts of at most SALVAGE_WORDS words.
C2_ShortPromptKey ==
    (Done /\ writes # <<>> /\ Len(split(sent[1])) <= SALVAGE_WORDS) =>
        /\ compute_hash(writes[Len(writes)][1]) = compute_hash(sent[Len(sent)])
        /\ Reply = writes[Len(writes)][2]

\* The loop passes that are left to a call in progress.
Remaining == 2 * (MAX_RETRIES - attempt) + (IF pc = "attempt" THEN 1 ELSE 0)

\* C7: whatever the endpoint answers, add_message ends with a string and
\* makes at most MAX_RETRIES requests.  A call in progress can always take
\* its next step, every step of a call uses up one of the boundedly many
\* loop passes that are left, and a call that has ended has returned a
\* string, which is the reply appended to the history unless the message
\* was rejected.
C7_State ==
    /\ Len(sent) <= MAX_RETRIES
    /\ InCall => (Remaining >= 0 /\ ENABLED (Sleep \/ Attempt(HttpJson(VALID_DATA))))
    /\ Done => (result # None /\ Reply \in STRING)
    /\ (Done /\ lookups # <<>>) =>
          (bot_responses # <<>> /\ bot_responses[Len(bot_responses)] = Reply)

C7_Step == InCall => (pc' = "done" \/ (InCall' /\ Remaining' < Remaining))

C7_AlwaysReturns == []C7_State /\ [][C7_Step]_vars

\* C7's case: a call that got three answers, none of them an adequate text,
\* and returned.
C7_Witness ==
    /\ Done
    /\ Len(received) = MAX_RETRIES
    /\ received[1].status_code = 400
    /\ received[2].kind = "timeout"
    /\ received[3].kind = "exception"

\* All characters of s are whitespace.
IsBlank(s) == \A i \in 1..Len(s) : IsSpace(SubSeq(s, i, i))

\* C8: add_message with an empty or whitespace-only message returns the
\* validation message, makes no request, no cache lookup and no cache write,
\* does not sleep, and leaves the history and the cache as they were.
C8_BlankRejected ==
    (Done /\ IsBlank(given)) =>
        /\ result = Some(MSG_INVALID_INPUT)
        /\ sent = <<>> /\ lookups = <<>> /\ writes = <<>> /\ sleeps = <<>>
        /\ user_inputs = before[1]
        /\ bot_responses = before[2]
        /\ cache = before[3]

\* C8's case: a whitespace-only message was rejected in a session that has
\* a history and a cached response.
C8_Witness ==
    /\ Done
    /\ given = "  "
    /\ result = Some(MSG_INVALID_INPUT)
    /\ user_inputs # <<>> /\ cache # {}

\* The rows of the table that were fresh for query p when the current call
\* started.
FreshRows(p) ==
    {r \in before[3] : /\ r.query_hash = compute_hash(p)
                      /\ before[4] - r.timestamp < CACHE_EXPIRY}

\* C9: when the cache holds a non-expired entry for the prompt a call looks
\* up, the call has returned that entry's response with no request, no sleep
\* and no cache write.
C9_HitSkipsNetwork ==
    \A i \in 1..Len(lookups) : \A r \in FreshRows(lookups[i][1]) :
        /\ Done
        /\ Reply = r.response
        /\ sent = <<>> /\ sleeps = <<>> /\ writes = <<>>
        /\ cache = before[3]

\* C9's case: the same message sent again after a clear, one second before
\* the entry expires.
C9_Witness ==
    /\ Done
    /\ lookups # <<>>
    /\ \E r \in FreshRows(lookups[1][1]) :
          before[4] - r.timestamp = CACHE_EXPIRY - 1

\* The answer of attempt i is a 2xx whose body is not JSON.
Unparsable(i) == received[i].kind = "http" /\ received[i].decode_error # ""

\* C10: after a 2xx with an unparsable body the call sleeps the backoff delay
\* and goes on while attempts remain; only on the last attempt does it
\* return, and then with the "invalid response" message.
C10_UnparsableRetried ==
    \A i \in 1..Len(received) : Unparsable(i) =>
        /\ (Done /\ Len(received) = i) =>
               (i = MAX_RETRIES /\ Reply = MSG_INVALID_RESPONSE)
        /\ (i < MAX_RETRIES /\ (Len(received) > i \/ Done)) =>
               \E k \in 1..Len(sleeps) : sleeps[k] = Pow2(i)

\* The answer of attempt i is a 2xx with a JSON body.
Parsed(i) ==
    /\ received[i].kind = "http"
    /\ received[i].status_code = 200
    /\ received[i].decode_error = ""

\* The answer of attempt i parsed, and its normalized text is empty or
\* shorter than 2 characters.
Soft(i) ==
    /\ Parsed(i)
    /\ Len(extract_response(received[i].data)) < MIN_REPLY_LENGTH

\* The call slept the backoff delay of attempt i; it slept it once.
SleptAfter(i) == \E k \in 1..Len(sleeps) : sleeps[k] = Pow2(i)
SleptOnce(i) == Cardinality({k \in 1..Len(sleeps) : sleeps[k] = Pow2(i)}) = 1

\* No delay of attempt i or of a later attempt was slept.
NoSleepFrom(i) == \A k \in 1..Len(sleeps) : sleeps[k] < Pow2(i)

\* Attempt i, not the last, was followed by its backoff delay and then by
\* attempt i + 1: the call is in that sleep, or has slept it once and stands
\* before or beyond attempt i + 1.
BackedOff(i) ==
    /\ ~(Done /\ Len(received) = i)
    /\ IF Len(received) = i
       THEN \/ pc = "sleep" /\ wait = Pow2(i) /\ attempt = i /\ ~SleptAfter(i)
            \/ pc = "attempt" /\ attempt = i + 1 /\ SleptOnce(i)
       ELSE SleptOnce(i)

\* The messages of a failed call: the returns of lines 250, 284, 287, 295,
\* 299, 307, 311 and 313.
FailureMessages ==
    {MSG_BAD_REQUEST, MSG_SERVER_ERROR, MSG_TIMEOUT, MSG_CONNECTION,
     MSG_INVALID_RESPONSE, MSG_RETRIES_EXHAUSTED}
        \cup {MSG_HTTP_ERROR(r.status_code) : r \in {a \in Answers : a.kind = "http"}}
        \cup {MSG_UNKNOWN_ERROR(r.text) : r \in {a \in Answers : a.kind = "exception"}}

\* C11: an attempt that parses but whose normalized text is empty or shorter
\* than 2 characters is followed by the backoff delay and the next attempt
\* while attempts remain; on the last attempt the call returns the fallback
\* text without sleeping, so a call whose last answer is a soft failure
\* never returns a failure message.
C11_SoftFailureFallback ==
    \A i \in 1..Len(received) : Soft(i) =>
        /\ i < MAX_RETRIES => BackedOff(i)
        /\ i = MAX_RETRIES =>
              /\ Done /\ Reply = MSG_FALLBACK /\ Reply \notin FailureMessages
              /\ NoSleepFrom(i)

\* C11's case: three soft failures, of both kinds, and the fallback text.
C11_Witness ==
    /\ Done
    /\ Len(received) = MAX_RETRIES
    /\ \A i \in 1..MAX_RETRIES : Soft(i)
    /\ \E i \in 1..MAX_RETRIES : extract_response(received[i].data) = ""
    /\ \E i \in 1..MAX_RETRIES : Len(extract_response(received[i].data)) = 1
    /\ sleeps = <<2, 4>>
    /\ Reply = MSG_FALLBACK

\* A permanent transport error: a 4xx other than 400 and 429, a connection
\* failure that is not a timeout, an unexpected exception.
Permanent(resp) ==
    \/ /\ resp.kind = "http"
       /\ resp.status_code >= 400 /\ resp.status_code < 500
       /\ resp.status_code \notin {400, 429}
    \/ resp.kind = "connection"
    \/ resp.kind = "exception"

\* C12: a permanent transport error on an attempt ends the call on that
\* attempt, whatever its number: no request follows it and no backoff delay
\* is slept after it.
C12_PermanentEndsCall ==
    \A i \in 1..Len(received) : Permanent(received[i]) =>
        /\ Done
        /\ Len(received) = i /\ Len(sent) = i
        /\ NoSleepFrom(i)
        /\ Reply \in FailureMessages

\* C12's case: a 404 on the second attempt, after a 503 and its delay.
C12_Witness ==
    /\ Done
    /\ received = <<Http(503), Http(404)>>
    /\ sleeps = <<2>>
    /\ Reply = MSG_HTTP_ERROR(404)

\* C12's other cases: a connection failure on the first attempt, an
\* exception on the last.
C12_WitnessConnection ==
    Done /\ received = <<Raises("connection", "")>> /\ Reply = MSG_CONNECTION

C12_WitnessException ==
    /\ Done
    /\ Len(received) = MAX_RETRIES
    /\ received[MAX_RETRIES].kind = "exception"

\* A 5xx or a timeout.
ServerError(resp) == resp.kind = "http" /\ resp.status_code >= 500
Transient(resp) == ServerError(resp) \/ resp.kind = "timeout"

\* C13: a 5xx or a timeout on attempt k < MAX_RETRIES is followed by a sleep
\* of exactly 2^k seconds and then by attempt k + 1; on attempt MAX_RETRIES
\* the call returns without sleeping, with the server-error message for a
\* 5xx and the timeout message for a timeout, whatever the earlier attempts
\* got.
C13_BackoffThenMessage ==
    \A i \in 1..Len(received) : Transient(received[i]) =>
        /\ i < MAX_RETRIES => BackedOff(i)
        /\ i = MAX_RETRIES =>
              /\ Done
              /\ NoSleepFrom(i)
              /\ Reply = IF ServerError(received[i])
                         THEN MSG_SERVER_ERROR ELSE MSG_TIMEOUT

\* C13's case: a 5xx, a timeout and a 5xx again: two delays and the
\* server-error message.
C13_Witness ==
    /\ Done
    /\ received = <<Http(503), Raises("timeout", ""), Http(503)>>
    /\ sleeps = <<2, 4>>
    /\ Reply = MSG_SERVER_ERROR

\* C13's other case: the last attempt timed out after two 5xx.
C13_WitnessTimeout ==
    /\ Done
    /\ received = <<Http(503), Http(503), Raises("timeout", "")>>
    /\ sleeps = <<2, 4>>
    /\ Reply = MSG_TIMEOUT

\* C14: only a text extracted from the endpoint's answer is written to the
\* cache: a call that made a request and returned a failure message or the
\* soft-failure fallback text wrote nothing and left the table as it was.
C14_OnlySuccessCached ==
    (Done /\ received # <<>> /\ Reply \in FailureMessages \cup {MSG_FALLBACK}) =>
        (writes = <<>> /\ cache = before[3])

\* C14 for the failure messages alone.
C14_FailureLeavesCache ==
    (Done /\ received # <<>> /\ Reply \in FailureMessages) =>
        (writes = <<>> /\ cache = before[3])

\* What the code does with the fallback text: line 268 stores it under the
\* local prompt, like an extracted text.
C14_FallbackIsCached ==
    (Done /\ received # <<>> /\ Reply = MSG_FALLBACK) =>
        /\ Len(writes) = 1 /\ writes[1][2] = MSG_FALLBACK
        /\ get_cached_response(cache, writes[1][1], now) = Some(MSG_FALLBACK)

\* The answer of attempt i is a 2xx whose body is a dict with an "error"
\* field and no "generated_text" field.
ErrorPayload(i) ==
    /\ Parsed(i)
    /\ IsDict(received[i].data)
    /\ HasKey(received[i].data, "error")
    /\ ~HasKey(received[i].data, "generated_text")

\* C17: a 2xx whose body is a record with an error indicator (and no
\* generated text) ends the call on that attempt, whatever its number, with
\* no retry and no sleep, and the reply contains the indicator.
C17_ErrorPayloadEndsCall ==
    \A i \in 1..Len(received) : ErrorPayload(i) =>
        /\ Done
        /\ Len(received) = i /\ Len(sent) = i
        /\ NoSleepFrom(i)
        /\ Contains(Reply, Format(GetKey(received[i].data, "error")))

\* C17's case: the error payload came on the second attempt.
C17_Witness ==
    /\ Done
    /\ received = <<Http(503), HttpJson(ERROR_DATA)>>
    /\ sleeps = <<2>>
    /\ Contains(Reply, "model loading")

\* C17 on the last attempt.
C17_WitnessLast ==
    /\ Done
    /\ Len(received) = MAX_RETRIES
    /\ ErrorPayload(MAX_RETRIES)

\* The answer of attempt i is a 400.
BadRequest(i) == received[i].kind = "http" /\ received[i].status_code = 400

\* The trailing SALVAGE_WORDS words of p, joined by single spaces.
TrailingWords(p) == join(KeepLast(split(p), SALVAGE_WORDS))

\* C19: after a 400 on attempt k < MAX_RETRIES for a prompt of more than
\* SALVAGE_WORDS words, the request of attempt k + 1 carries only the
\* trailing SALVAGE_WORDS words of that prompt and is made without a sleep;
\* a 400 on the last attempt returns the "invalid request format" message.
C19_RetryCarriesSalvaged ==
    \A i \in 1..Len(received) : BadRequest(i) =>
        /\ i < MAX_RETRIES =>
              /\ ~(Done /\ Len(received) = i)
              /\ ~SleptAfter(i)
              /\ (Len(sent) > i /\ Len(split(sent[i])) > SALVAGE_WORDS) =>
                     sent[i + 1] = TrailingWords(sent[i])
        /\ i = MAX_RETRIES => (Done /\ Reply = MSG_BAD_REQUEST)

\* What the code does after a 400: the next request carries the prompt of
\* the first, whatever its length; the rest of C19 holds.
C19_RetryCarriesSame ==
    \A i \in 1..Len(received) : BadRequest(i) =>
        /\ i < MAX_RETRIES =>
              /\ ~(Done /\ Len(received) = i)
              /\ ~SleptAfter(i)
              /\ Len(sent) > i => sent[i + 1] = sent[1]
        /\ i = MAX_RETRIES => (Done /\ Reply = MSG_BAD_REQUEST)

\* C22: every response that query has stored in the cache is a string of
\* at least MIN_REPLY_LENGTH characters, so the test of line 204 takes every
\* fresh row that a lookup finds for a hit.
C22_StoredIsAdequate ==
    /\ \A r \in cache :
          r.response \in STRING /\ Len(r.response) >= MIN_REPLY_LENGTH
    /\ \A i \in 1..Len(writes) : Len(writes[i][2]) >= MIN_REPLY_LENGTH
    /\ \A i \in 1..Len(lookups) :
          FreshRows(lookups[i][1]) # {} =>
              /\ Truthy(lookups[i][2])
              /\ \E r \in FreshRows(lookups[i][1]) : lookups[i][2] = Some(r.response)

\* C22's case: after three inadequate texts the call stored the fallback
\* text, not the text of the last answer.
C22_Witness ==
    /\ Done
    /\ Len(received) = MAX_RETRIES
    /\ Soft(MAX_RETRIES)
    /\ Len(writes) = 1
    /\ \E r \in cache : r.response = writes[1][2] /\ r.response = MSG_FALLBACK

\* C22's other case: a lookup found a fresh row and the test took it.
C22_WitnessHit ==
    /\ Done
    /\ lookups # <<>>
    /\ FreshRows(lookups[1][1]) # {}
    /\ Truthy(lookups[1][2])
    /\ Reply = lookups[1][2][1]

C23_WitnessClear ==
    /\ pc = "idle"
    /\ user_inputs = <<>> /\ bot_responses = <<>>
    /\ cache # {} /\ now = 0

C23_WitnessRejected ==
    /\ Done
    /\ lookups = <<>>
    /\ Len(user_inputs) = 2 /\ Len(bot_responses) = 2

C23_WitnessFallback ==
    /\ Done
    /\ bot_responses = <<MSG_FALLBACK>>
    /\ user_inputs = <<"oi">>

=============================================================================
